---- MODULE Spec2Model ----
(***************************************************************************)
(* Model of src/Source.cpp: main() loads an image with OpenCV, converts it *)
(* to RGBA, runs the OpenCL kernel convertToGrayscale over a 2-D range on  *)
(* an in-order command queue, reads the result back with a blocking read,  *)
(* writes it as GreyScaledImage.jpg and releases the OpenCL handles.       *)
(*                                                                         *)
(* Two specifications:                                                     *)
(*   Spec        the whole of main(), every API call free to fail;         *)
(*   KernelSpec  the kernel dispatched over an arbitrary RGBA buffer (the  *)
(*               codec stubbed by a synthetic buffer), work-items in any   *)
(*               interleaving, then the blocking read.                     *)
(***************************************************************************)
EXTENDS Integers, Sequences, FiniteSets, TLC

\* ------------------------------------------------------------------ bounds
MaxW == 2
MaxH == 2
MaxPixels == 4

\* ------------------------------------------------------- program constants
CL_SUCCESS == 0
\* error statuses of the OpenCL API: CL_OUT_OF_RESOURCES, CL_INVALID_MEM_OBJECT
ClErrors == {-5, -38}
InvalidMemObject == 0 - 38
ClResults == {CL_SUCCESS} \cup ClErrors

\* bit by bit on naturals: a & b ("and"), a & ~b ("andnot"), a | b ("or")
RECURSIVE NatBits(_, _, _)
NatBits(a, b, mode) ==
  IF a = 0 /\ b = 0 THEN 0
  ELSE LET x == a % 2
           y == b % 2
           bit == CASE mode = "and" -> IF x = 1 /\ y = 1 THEN 1 ELSE 0
                    [] mode = "andnot" -> IF x = 1 /\ y = 0 THEN 1 ELSE 0
                    [] mode = "or" -> IF x = 1 \/ y = 1 THEN 1 ELSE 0
       IN bit + 2 * NatBits(a \div 2, b \div 2, mode)
\* ~n in two's complement
BitNot(n) == 0 - n - 1
\* errorVar |= r: the bitwise OR of two cl_int (two's complement)
BitOr(a, b) ==
  CASE a >= 0 /\ b >= 0 -> NatBits(a, b, "or")
    [] a < 0 /\ b < 0 -> BitNot(NatBits(BitNot(a), BitNot(b), "and"))
    [] a < 0 /\ b >= 0 -> BitNot(NatBits(BitNot(a), b, "andnot"))
    [] a >= 0 /\ b < 0 -> BitNot(NatBits(BitNot(b), a, "andnot"))

\* ------------------------------------------------------------------ pixels
\* 8-bit channel
UChar(n) == n % 256

\* cv::COLOR_BGR2RGBA on one pixel: (b, g, r) -> (r, g, b, 255)
BGR2RGBA(p) == <<p[3], p[2], p[1], 255>>
\* cv::COLOR_RGBA2BGR on one pixel: (r, g, b, a) -> (b, g, r)
RGBA2BGR(p) == <<p[3], p[2], p[1]>>

\* cv::cvtColor over all the pixels of a Mat
CvtBGR2RGBA(s) == [k \in 1..Len(s) |-> BGR2RGBA(s[k])]
CvtRGBA2BGR(s) == [k \in 1..Len(s) |-> RGBA2BGR(s[k])]

\* uchar grayscale = (px.x + px.y + px.z) / 3;  the sum is computed in int
\* (integer promotion), the quotient is converted to uchar
GrayscaleWrapped(px) == UChar(UChar(px[1] + px[2] + px[3]) \div 3)
Grayscale(px) == UChar((px[1] + px[2] + px[3]) \div 3)

\* (uchar4)(grayscale, grayscale, grayscale, px.w)
OutPixel(px) == <<Grayscale(px), Grayscale(px), Grayscale(px), px[4]>>

\* int index = y * imgWidth + x;
IndexSwapped(x, y, imgWidth) == x * imgWidth + y
Index(x, y, imgWidth) == y * imgWidth + x

\* the 2-D global range {0..w-1} x {0..h-1}: one work-item per index tuple
GlobalRange(w, h) == (0..(w - 1)) \X (0..(h - 1))

\* ------------------------------------------------------------------ inputs
\* pixels of the files the model reads (BGR, the order cv::imread decodes to)
FilePalette == { <<210, 150, 90>>, <<1, 0, 0>> }
\* pixels of the files KernelSpec reads (BGR): more colours, among them white
\* (channel sum above 255) and a pixel whose mean truncates to 0
KernelFilePalette == { <<210, 150, 90>>, <<1, 0, 0>>, <<255, 255, 255>>,
                       <<90, 60, 30>>, <<0, 0, 255>> }
\* uchar4 values the kernel is evaluated on apart from any run (any alpha)
RGBAPalette == { <<90, 150, 210, 255>>, <<0, 0, 1, 128>>, <<255, 255, 255, 0>>,
                 <<30, 60, 90, 255>>, <<255, 0, 0, 10>> }
\* what a read through a null or out-of-range pointer may yield
GarbagePixels == { <<0, 0, 0, 0>>, <<205, 205, 205, 205>> }

Dims == { d \in (1..MaxW) \X (1..MaxH) : d[1] * d[2] <= MaxPixels }

NoFile == [w |-> 0, h |-> 0, px |-> <<>>]
Mats(palette) ==
  UNION { { [w |-> d[1], h |-> d[2], px |-> s] : s \in [1..(d[1] * d[2]) -> palette] }
          : d \in Dims }
EmptyMat == [w |-> 0, h |-> 0, px |-> <<>>]

\* ------------------------------------------------------------------- state
VARIABLES
  file,           \* the input file ISIC_0073502.jpg as it decodes, or NoFile
  pc,             \* the statement of main() to execute next
  retVal,         \* the value main() returned (read once pc = "returned")
  exitCode,       \* the exit status of the process (read once pc = "exited")
  trace,          \* the calls main() has made so far, in order, with their outcome
  inputImg, inputImgRGBA, width, height,
  errorVar,
  handle,         \* context, cmdQueue, program, clKernel, inputBuffer, outputBuffer
  args,           \* the kernel's four arguments as bound by clSetKernelArg
  inMem, outMem,  \* contents of the two device buffers
  kernelCmd,      \* the N-D range command on the queue
  pending,        \* work-items of the dispatch that have not run yet
  readCmd,        \* the read command on the queue
  rdCount, wrCount, oob,   \* per element: reads of the input, writes of the output
  outputImgRGBA, outputImg, outFile,
  coutBuf, cerrBuf,        \* where std::cout / std::cerr write to
  stdoutLines, stderrLines \* what has reached the real standard output / error

hostv == <<file, inputImg, inputImgRGBA, width, height>>
clv   == <<errorVar, handle, args>>
devv  == <<inMem, outMem, kernelCmd, pending, readCmd, rdCount, wrCount, oob>>
outv  == <<outputImgRGBA, outputImg, outFile>>
iov   == <<coutBuf, cerrBuf, stdoutLines, stderrLines>>
ctlv  == <<pc, retVal, exitCode, trace>>
vars  == <<hostv, clv, devv, outv, iov, ctlv>>

HandleNames == {"context", "cmdQueue", "program", "clKernel", "inputBuffer", "outputBuffer"}

\* clCreateCommandQueueWithProperties(context, devId, NULL, ...): default
\* properties, i.e. an in-order queue
InOrderQueue == TRUE
\* clEnqueueReadBuffer(..., CL_TRUE, ...): a blocking read
NonBlockingRead == FALSE
BlockingRead == TRUE

\* the cleanup at the end of main(), in the order of the calls
ReleaseOrderKernelLast ==
  <<"inputBuffer", "outputBuffer", "program", "cmdQueue", "context", "clKernel">>
ReleaseOrder ==
  <<"inputBuffer", "outputBuffer", "clKernel", "program", "cmdQueue", "context">>

\* the value clSetKernelArg(clKernel, i, ...) binds to argument i (0-based)
ArgValue(i) ==
  CASE i = 0 -> IF handle["inputBuffer"] = "live" THEN "inputBuffer" ELSE "NULL"
    [] i = 1 -> IF handle["outputBuffer"] = "live" THEN "outputBuffer" ELSE "NULL"
    [] i = 2 -> width
    [] i = 3 -> height

Log(op, arg, ok) == trace' = Append(trace, [op |-> op, arg |-> arg, ok |-> ok])

\* std::cerr << msg << std::endl;
Cerr(msg) ==
  /\ stderrLines' = IF cerrBuf = "console" THEN Append(stderrLines, msg) ELSE stderrLines
  /\ UNCHANGED <<coutBuf, cerrBuf, stdoutLines>>

\* std::cerr << msg << std::endl; return 1;
Return1(msg) ==
  /\ Cerr(msg)
  /\ pc' = "returned"
  /\ retVal' = 1
  /\ UNCHANGED exitCode

Goto(label) == pc' = label /\ UNCHANGED <<retVal, exitCode>> /\ UNCHANGED iov

Fill(n, p) == [k \in 1..n |-> p]

Init ==
  /\ file \in {NoFile} \cup Mats(FilePalette)
  /\ pc = "redirect"
  /\ retVal = 0
  /\ exitCode = 0
  /\ trace = <<>>
  /\ inputImg = EmptyMat
  /\ inputImgRGBA = EmptyMat
  /\ width = 0
  /\ height = 0
  /\ errorVar = CL_SUCCESS
  /\ handle = [n \in HandleNames |-> "unset"]
  /\ args = <<"unset", "unset", "unset", "unset">>
  /\ inMem = <<>>
  /\ outMem = <<>>
  /\ kernelCmd = "none"
  /\ pending = {}
  /\ readCmd = "none"
  /\ rdCount = <<>>
  /\ wrCount = <<>>
  /\ oob = FALSE
  /\ outputImgRGBA = EmptyMat
  /\ outputImg = EmptyMat
  /\ outFile = [written |-> FALSE, img |-> EmptyMat]
  /\ coutBuf = "console"
  /\ cerrBuf = "console"
  /\ stdoutLines = <<>>
  /\ stderrLines = <<>>

\* ------------------------------------------------------------ main(), host
\* std::ofstream devnull; ... std::cout.rdbuf(devnull.rdbuf()); std::cerr.rdbuf(...)
Redirect ==
  /\ pc = "redirect"
  /\ coutBuf' = "devnull"
  /\ cerrBuf' = "devnull"
  /\ pc' = "imread"
  /\ UNCHANGED <<retVal, exitCode, trace, stdoutLines, stderrLines>>
  /\ UNCHANGED <<hostv, clv, devv, outv>>

\* cv::imread(...); if (inputImg.empty()) { cerr << ...; return 1; }
Imread ==
  /\ pc = "imread"
  /\ inputImg' = file
  /\ Log("imread", "", file # NoFile)
  /\ IF file = NoFile
       THEN Return1("Couldn't find the input image with specified link.")
       ELSE Goto("cvtColorIn")
  /\ UNCHANGED <<file, inputImgRGBA, width, height>>
  /\ UNCHANGED <<clv, devv, outv>>

\* cv::ocl::setUseOpenCL(true); cv::cvtColor(inputImg, inputImgRGBA, COLOR_BGR2RGBA);
CvtColorIn ==
  /\ pc = "cvtColorIn"
  /\ inputImgRGBA' = [w |-> inputImg.w, h |-> inputImg.h,
                      px |-> CvtBGR2RGBA(inputImg.px)]
  /\ Log("cvtColorIn", "", TRUE)
  /\ Goto("clGetPlatformIDs")
  /\ UNCHANGED <<file, inputImg, width, height>>
  /\ UNCHANGED <<clv, devv, outv>>

\* a call that returns a status and acquires nothing, followed by its check
StatusCall(label, msg, next) ==
  /\ pc = label
  /\ \E r \in ClResults :
       /\ errorVar' = r
       /\ Log(label, "", r = CL_SUCCESS)
       /\ IF r # CL_SUCCESS THEN Return1(msg) ELSE Goto(next)
  /\ UNCHANGED <<handle, args>>
  /\ UNCHANGED <<hostv, devv, outv>>

\* a call that creates the object named h, followed by its check
CreateCall(label, h, msg, next) ==
  /\ pc = label
  /\ \E r \in ClResults :
       /\ errorVar' = r
       /\ handle' = [handle EXCEPT ![h] = IF r = CL_SUCCESS THEN "live" ELSE "null"]
       /\ Log(label, h, r = CL_SUCCESS)
       /\ IF r # CL_SUCCESS THEN Return1(msg) ELSE Goto(next)
  /\ UNCHANGED args
  /\ UNCHANGED <<hostv, devv, outv>>

GetPlatformIDs ==
  StatusCall("clGetPlatformIDs", "Failed to get the platform ID.", "clGetDeviceIDs")
GetDeviceIDs ==
  StatusCall("clGetDeviceIDs", "Failed to get the device ID.", "clCreateContext")
CreateContext ==
  CreateCall("clCreateContext", "context", "Failed to create the context.",
             "clCreateCommandQueue")
CreateCommandQueue ==
  CreateCall("clCreateCommandQueue", "cmdQueue", "Failed to create the command queue.",
             "clCreateProgram")
CreateProgram ==
  CreateCall("clCreateProgram", "program", "Failed to create the program.",
             "clBuildProgram")
BuildProgram ==
  StatusCall("clBuildProgram", "Failed to build the program.", "clCreateKernel")
CreateKernel ==
  CreateCall("clCreateKernel", "clKernel", "Failed to create the kernel.",
             "createInputBuffer")

\* int width = cols; int height = rows;
\* cl_mem inputBuffer = clCreateBuffer(context, READ_ONLY | COPY_HOST_PTR, 4*w*h,
\*                                     inputImgRGBA.data, &errorVar);   (no check)
CreateInputBuffer ==
  /\ pc = "createInputBuffer"
  /\ width' = inputImgRGBA.w
  /\ height' = inputImgRGBA.h
  /\ \E r \in ClResults :
       /\ errorVar' = r
       /\ handle' = [handle EXCEPT !["inputBuffer"] =
                       IF r = CL_SUCCESS THEN "live" ELSE "null"]
       /\ inMem' = IF r = CL_SUCCESS THEN inputImgRGBA.px ELSE <<>>
       /\ rdCount' = IF r = CL_SUCCESS THEN Fill(Len(inputImgRGBA.px), 0) ELSE <<>>
       /\ Log("clCreateBuffer", "inputBuffer", r = CL_SUCCESS)
  /\ Goto("createOutputBuffer")
  /\ UNCHANGED <<file, inputImg, inputImgRGBA, args>>
  /\ UNCHANGED <<outMem, kernelCmd, pending, readCmd, wrCount, oob>>
  /\ UNCHANGED outv

\* cl_mem outputBuffer = clCreateBuffer(context, WRITE_ONLY, 4*w*h, NULL, &errorVar);
\* (no check); the contents of the new buffer are undefined
CreateOutputBuffer ==
  /\ pc = "createOutputBuffer"
  /\ \E r \in ClResults, g \in GarbagePixels :
       /\ errorVar' = r
       /\ handle' = [handle EXCEPT !["outputBuffer"] =
                       IF r = CL_SUCCESS THEN "live" ELSE "null"]
       /\ outMem' = IF r = CL_SUCCESS THEN Fill(width * height, g) ELSE <<>>
       /\ wrCount' = IF r = CL_SUCCESS THEN Fill(width * height, 0) ELSE <<>>
       /\ Log("clCreateBuffer", "outputBuffer", r = CL_SUCCESS)
  /\ Goto("clSetKernelArg0")
  /\ UNCHANGED args
  /\ UNCHANGED <<inMem, kernelCmd, pending, readCmd, rdCount, oob>>
  /\ UNCHANGED <<hostv, outv>>

ArgLabel == <<"clSetKernelArg0", "clSetKernelArg1", "clSetKernelArg2", "clSetKernelArg3",
              "clEnqueueNDRangeKernel">>
ArgName == <<"0", "1", "2", "3">>

\* errorVar = clSetKernelArg(clKernel, 0, ...); errorVar |= clSetKernelArg(clKernel, i, ...);
\* after the fourth: if (errorVar != CL_SUCCESS) { cerr << ...; return 1; }
SetKernelArg(i) ==
  /\ pc = ArgLabel[i + 1]
  /\ \E r \in ClResults :
       LET e == IF i = 0 THEN r ELSE BitOr(errorVar, r) IN
       /\ errorVar' = e
       /\ args' = IF r = CL_SUCCESS THEN [args EXCEPT ![i + 1] = ArgValue(i)] ELSE args
       /\ Log("clSetKernelArg", ArgName[i + 1], r = CL_SUCCESS)
       /\ IF i = 3 /\ e # CL_SUCCESS
            THEN Return1("Error: Failed to set kernel arguments.")
            ELSE Goto(ArgLabel[i + 2])
  /\ UNCHANGED handle
  /\ UNCHANGED <<hostv, devv, outv>>

\* size_t globalWorkSize[2] = { width, height };
\* errorVar = clEnqueueNDRangeKernel(cmdQueue, clKernel, 2, NULL, globalWorkSize, ...);
EnqueueNDRangeKernel ==
  /\ pc = "clEnqueueNDRangeKernel"
  /\ \E r \in ClResults :
       /\ errorVar' = r
       /\ Log("clEnqueueNDRangeKernel", "", r = CL_SUCCESS)
       /\ IF r # CL_SUCCESS
            THEN /\ Return1("Error: Failed to execute kernel.")
                 /\ UNCHANGED <<kernelCmd, pending>>
            ELSE /\ Goto("clEnqueueReadBuffer")
                 /\ kernelCmd' = "queued"
                 /\ pending' = GlobalRange(width, height)
  /\ UNCHANGED <<handle, args>>
  /\ UNCHANGED <<inMem, outMem, readCmd, rdCount, wrCount, oob>>
  /\ UNCHANGED <<hostv, outv>>

\* ------------------------------------------------------------- the device
\* what inputImage[index] yields: the element, or anything at all (including a
\* fault of the device) when the pointer is null or the index out of range
InputValid(index) == args[1] = "inputBuffer" /\ index >= 0 /\ index < Len(inMem)
OutputValid(index) == args[2] = "outputBuffer" /\ index >= 0 /\ index < Len(outMem)
Loads(index) ==
  IF InputValid(index) THEN {inMem[index + 1]} ELSE GarbagePixels \cup {<<>>}

\* one work-item of convertToGrayscale, at global id (x, y)
WorkItem(x, y) ==
  /\ pc # "exited"
  /\ kernelCmd = "queued"
  /\ <<x, y>> \in pending
  /\ LET index == Index(x, y, args[3]) IN
     \E px \in Loads(index), storeFaults \in BOOLEAN :
       LET fault == px = <<>> \/ (storeFaults /\ ~OutputValid(index)) IN
       /\ OutputValid(index) => ~storeFaults
       /\ rdCount' = IF InputValid(index)
                       THEN [rdCount EXCEPT ![index + 1] = @ + 1] ELSE rdCount
       /\ oob' = (oob \/ ~InputValid(index) \/ ~OutputValid(index))
       /\ IF fault
            THEN /\ kernelCmd' = "fault"
                 /\ pending' = {}
                 /\ UNCHANGED <<outMem, wrCount>>
            ELSE /\ pending' = pending \ {<<x, y>>}
                 /\ kernelCmd' = IF pending' = {} THEN "complete" ELSE "queued"
                 /\ outMem' = IF OutputValid(index)
                                THEN [outMem EXCEPT ![index + 1] = OutPixel(px)]
                                ELSE outMem
                 /\ wrCount' = IF OutputValid(index)
                                 THEN [wrCount EXCEPT ![index + 1] = @ + 1]
                                 ELSE wrCount
  /\ UNCHANGED <<inMem, readCmd>>
  /\ UNCHANGED <<hostv, clv, outv, iov, ctlv>>

\* the read command runs on the device: on an in-order queue, after the kernel
DeviceRead ==
  /\ pc # "exited"
  /\ readCmd = "queued"
  /\ InOrderQueue => kernelCmd \in {"complete", "fault"}
  /\ IF kernelCmd = "fault"
       THEN /\ readCmd' = "failed"
            /\ UNCHANGED outputImgRGBA
       ELSE /\ readCmd' = "complete"
            /\ outputImgRGBA' = [outputImgRGBA EXCEPT !.px = outMem]
  /\ UNCHANGED <<inMem, outMem, kernelCmd, pending, rdCount, wrCount, oob>>
  /\ UNCHANGED <<outputImg, outFile>>
  /\ UNCHANGED <<hostv, clv, iov, ctlv>>

\* ------------------------------------------------- main(), host (continued)
\* cv::Mat outputImgRGBA(height, width, CV_8UC4);   (uninitialised pixels)
\* errorVar = clEnqueueReadBuffer(cmdQueue, outputBuffer, CL_TRUE, 0, 4*w*h, data, ...);
\* the call itself: it is refused at once, or the read command is queued
ReadBufferCall ==
  /\ pc = "clEnqueueReadBuffer"
  /\ \E r \in ClResults, g \in GarbagePixels :
       LET e == IF handle["outputBuffer"] # "live" /\ r = CL_SUCCESS
                  THEN InvalidMemObject ELSE r IN
       /\ outputImgRGBA' = [w |-> width, h |-> height, px |-> Fill(width * height, g)]
       /\ IF e # CL_SUCCESS
            THEN /\ errorVar' = e
                 /\ Log("clEnqueueReadBuffer", "", FALSE)
                 /\ Return1("Error: Failed to read buffer.")
                 /\ UNCHANGED readCmd
            ELSE /\ readCmd' = "queued"
                 /\ pc' = "readWait"
                 /\ UNCHANGED <<errorVar, trace, retVal, exitCode>>
                 /\ UNCHANGED iov
  /\ UNCHANGED <<handle, args>>
  /\ UNCHANGED <<inMem, outMem, kernelCmd, pending, rdCount, wrCount, oob>>
  /\ UNCHANGED <<outputImg, outFile>>
  /\ UNCHANGED hostv

\* the call returns: a blocking read returns once the read command has run;
\* if (errorVar != CL_SUCCESS) { cerr << ...; return 1; }
ReadBufferReturn ==
  /\ pc = "readWait"
  /\ BlockingRead => readCmd \in {"complete", "failed"}
  /\ \E err \in ClErrors :
       LET e == IF readCmd = "failed" THEN err ELSE CL_SUCCESS IN
       /\ errorVar' = e
       /\ Log("clEnqueueReadBuffer", "", e = CL_SUCCESS)
       /\ IF e # CL_SUCCESS
            THEN Return1("Error: Failed to read buffer.")
            ELSE Goto("cvtColorOut")
  /\ UNCHANGED <<handle, args>>
  /\ UNCHANGED <<hostv, devv, outv>>

\* cv::cvtColor(outputImgRGBA, outputImg, cv::COLOR_RGBA2BGR);
CvtColorOut ==
  /\ pc = "cvtColorOut"
  /\ outputImg' = [w |-> outputImgRGBA.w, h |-> outputImgRGBA.h,
                   px |-> CvtRGBA2BGR(outputImgRGBA.px)]
  /\ Log("cvtColorOut", "", TRUE)
  /\ Goto("imwrite")
  /\ UNCHANGED <<outputImgRGBA, outFile>>
  /\ UNCHANGED <<hostv, clv, devv>>

\* cv::imwrite("GreyScaledImage.jpg", outputImg);   (the result is not looked at)
Imwrite ==
  /\ pc = "imwrite"
  /\ \E ok \in BOOLEAN :
       /\ outFile' = IF ok THEN [written |-> TRUE, img |-> outputImg] ELSE outFile
       /\ Log("imwrite", "", ok)
  /\ Goto("release1")
  /\ UNCHANGED <<outputImgRGBA, outputImg>>
  /\ UNCHANGED <<hostv, clv, devv>>

RelLabel == <<"release1", "release2", "release3", "release4", "release5", "release6",
              "restore">>

\* the k-th call of the cleanup: clReleaseMemObject / Kernel / Program /
\* CommandQueue / Context; a null handle is refused and the status dropped
Release(k) ==
  /\ pc = RelLabel[k]
  /\ LET h == ReleaseOrder[k] IN
       /\ handle' = [handle EXCEPT ![h] = IF @ = "live" THEN "released" ELSE @]
       /\ Log("clRelease", h, handle[h] = "live")
  /\ Goto(RelLabel[k + 1])
  /\ UNCHANGED <<errorVar, args>>
  /\ UNCHANGED <<hostv, devv, outv>>

\* std::cout.rdbuf(coutbuf); std::cerr.rdbuf(cerrbuf);
Restore ==
  /\ pc = "restore"
  /\ coutBuf' = "console"
  /\ cerrBuf' = "console"
  /\ pc' = "print"
  /\ UNCHANGED <<retVal, exitCode, trace, stdoutLines, stderrLines>>
  /\ UNCHANGED <<hostv, clv, devv, outv>>

\* std::cout << "Grayscale conversion has been completed. ..." << std::endl; return 0;
PrintDone ==
  /\ pc = "print"
  /\ stdoutLines' =
       IF coutBuf = "console"
         THEN Append(stdoutLines,
                "Grayscale conversion has been completed. The Output saved as GreyScaledImage.jpg")
         ELSE stdoutLines
  /\ pc' = "returned"
  /\ retVal' = 0
  /\ UNCHANGED <<exitCode, trace, coutBuf, cerrBuf, stderrLines>>
  /\ UNCHANGED <<hostv, clv, devv, outv>>

\* after main() has returned the runtime flushes std::cout and std::cerr. On a
\* "return 1" they still point at the stream buffer of the local devnull, which
\* has been destroyed: the flush either does nothing or kills the process.
ExitStatuses == IF coutBuf = "devnull" \/ cerrBuf = "devnull" THEN {retVal, 139} ELSE {retVal}
ProcessExit ==
  /\ pc = "returned"
  /\ exitCode' \in ExitStatuses
  /\ pc' = "exited"
  /\ UNCHANGED <<retVal, trace>>
  /\ UNCHANGED <<hostv, clv, devv, outv, iov>>

Next ==
  \/ Redirect
  \/ Imread
  \/ CvtColorIn
  \/ GetPlatformIDs
  \/ GetDeviceIDs
  \/ CreateContext
  \/ CreateCommandQueue
  \/ CreateProgram
  \/ BuildProgram
  \/ CreateKernel
  \/ CreateInputBuffer
  \/ CreateOutputBuffer
  \/ \E i \in 0..3 : SetKernelArg(i)
  \/ EnqueueNDRangeKernel
  \/ \E x \in 0..(MaxW - 1), y \in 0..(MaxH - 1) : WorkItem(x, y)
  \/ DeviceRead
  \/ ReadBufferCall
  \/ ReadBufferReturn
  \/ CvtColorOut
  \/ Imwrite
  \/ \E k \in 1..6 : Release(k)
  \/ Restore
  \/ PrintDone
  \/ ProcessExit

Spec == Init /\ [][Next]_vars

\* ------------------------------------------------------------- KernelSpec
\* the calls main() has made when it reaches clEnqueueNDRangeKernel
Call(op, arg) == [op |-> op, arg |-> arg, ok |-> TRUE]
TraceBeforeDispatch ==
  << Call("imread", ""), Call("cvtColorIn", ""), Call("clGetPlatformIDs", ""),
     Call("clGetDeviceIDs", ""), Call("clCreateContext", "context"),
     Call("clCreateCommandQueue", "cmdQueue"), Call("clCreateProgram", "program"),
     Call("clBuildProgram", ""), Call("clCreateKernel", "clKernel"),
     Call("clCreateBuffer", "inputBuffer"), Call("clCreateBuffer", "outputBuffer"),
     Call("clSetKernelArg", "0"), Call("clSetKernelArg", "1"),
     Call("clSetKernelArg", "2"), Call("clSetKernelArg", "3") >>

\* main() about to dispatch: the file has been decoded and converted, the session
\* opened, the kernel built, both buffers created and the four arguments bound
KInit ==
  /\ file \in Mats(KernelFilePalette)
  /\ inputImg = file
  /\ inputImgRGBA = [w |-> file.w, h |-> file.h, px |-> CvtBGR2RGBA(file.px)]
  /\ width = inputImgRGBA.w
  /\ height = inputImgRGBA.h
  /\ pc = "clEnqueueNDRangeKernel"
  /\ retVal = 0
  /\ exitCode = 0
  /\ trace = TraceBeforeDispatch
  /\ errorVar = CL_SUCCESS
  /\ handle = [n \in HandleNames |-> "live"]
  /\ args = <<"inputBuffer", "outputBuffer", width, height>>
  /\ inMem = inputImgRGBA.px
  /\ \E g \in GarbagePixels : outMem = Fill(width * height, g)
  /\ kernelCmd = "none"
  /\ pending = {}
  /\ readCmd = "none"
  /\ rdCount = Fill(width * height, 0)
  /\ wrCount = Fill(width * height, 0)
  /\ oob = FALSE
  /\ outputImgRGBA = EmptyMat
  /\ outputImg = EmptyMat
  /\ outFile = [written |-> FALSE, img |-> EmptyMat]
  /\ coutBuf = "devnull"
  /\ cerrBuf = "devnull"
  /\ stdoutLines = <<>>
  /\ stderrLines = <<>>

KNext ==
  \/ EnqueueNDRangeKernel
  \/ \E x \in 0..(MaxW - 1), y \in 0..(MaxH - 1) : WorkItem(x, y)
  \/ DeviceRead
  \/ ReadBufferCall
  \/ ReadBufferReturn

KernelSpec == KInit /\ [][KNext]_vars

\* ------------------------------------------------------------------ claims
\* helpers over the history of calls
Reverse(s) == [k \in 1..Len(s) |-> s[Len(s) + 1 - k]]
Pos(s, v) == CHOOSE k \in 1..Len(s) : s[k] = v
Range(s) == { s[k] : k \in 1..Len(s) }
ArgsOf(s) == [k \in 1..Len(s) |-> s[k].arg]
CreateOps == {"clCreateContext", "clCreateCommandQueue", "clCreateProgram",
              "clCreateKernel", "clCreateBuffer"}
IsAcquire(e) == e.op \in CreateOps /\ e.ok
IsRelease(e) == e.op = "clRelease" /\ e.ok
IsFailure(e) == ~e.ok
\* the handles acquired, in the order of their acquisition; those released, in order
Acquired == ArgsOf(SelectSeq(trace, IsAcquire))
Released == ArgsOf(SelectSeq(trace, IsRelease))
Failures == SelectSeq(trace, IsFailure)
Called(op) == \E k \in 1..Len(trace) : trace[k].op = op
Succeeded(op) == \E k \in 1..Len(trace) : trace[k].op = op /\ trace[k].ok
FailedCall(op, arg) ==
  \E k \in 1..Len(trace) : trace[k].op = op /\ trace[k].arg = arg /\ ~trace[k].ok
Mean(p) == (p[1] + p[2] + p[3]) \div 3
\* position in the history of the first call of op (0: none)
FirstCall(op) ==
  IF Called(op) THEN CHOOSE k \in 1..Len(trace) :
                       trace[k].op = op /\ \A m \in 1..(k - 1) : trace[m].op # op
  ELSE 0
\* position of the successful clSetKernelArg of the i-th argument (0: none)
BoundAt(i) ==
  LET e == [op |-> "clSetKernelArg", arg |-> ArgName[i], ok |-> TRUE] IN
  IF e \in Range(trace) THEN Pos(trace, e) ELSE 0

\* C1: once the kernel has run over (W, H) and the output has been read back, the
\* output has W*H pixels and every pixel i has R = G = B = (in.R + in.G + in.B) div 3
\* (sum not wrapped, result in 0..255) and A = in.A.
C1_GrayscaleMean ==
  pc = "cvtColorOut" =>
    /\ width >= 1 /\ height >= 1
    /\ Len(inputImgRGBA.px) = width * height
    /\ Len(outputImgRGBA.px) = width * height
    /\ \A i \in 1..(width * height) :
         LET in == inputImgRGBA.px[i]
             out == outputImgRGBA.px[i] IN
         /\ Len(out) = 4
         /\ out[1] = Mean(in) /\ out[2] = Mean(in) /\ out[3] = Mean(in)
         /\ out[1] \in 0..255
         /\ out[4] = in[4]
    /\ \A p \in RGBAPalette :
         OutPixel(p) = <<Mean(p), Mean(p), Mean(p), p[4]>> /\ Mean(p) \in 0..255

\* a 2x2 image has been read back whose first pixel is white (channel sum 765,
\* above 255) and whose second is (0, 0, 1, 255) (the mean truncates to 0)
C1_Witness ==
  /\ pc = "cvtColorOut"
  /\ width = 2 /\ height = 2
  /\ inputImgRGBA.px[1] = <<255, 255, 255, 255>>
  /\ outputImgRGBA.px[1] = <<255, 255, 255, 255>>
  /\ inputImgRGBA.px[2] = <<0, 0, 1, 255>>
  /\ outputImgRGBA.px[2] = <<0, 0, 0, 255>>

\* C10: over the global range (W, H) the map (x, y) -> y*W + x is a bijection onto
\* 0..W*H-1; in any interleaving every work-item reads and writes inside the
\* buffers, no output element is written twice, the input buffer is never written,
\* and once the dispatch is complete every element has been read once and written
\* once and the output depends on the input alone.
C10_WorkItemsDisjoint ==
  kernelCmd \in {"queued", "complete"} =>
    LET n == width * height
        idx(it) == Index(it[1], it[2], width) IN
    /\ { idx(it) : it \in GlobalRange(width, height) } = 0..(n - 1)
    /\ \A a, b \in GlobalRange(width, height) : idx(a) = idx(b) => a = b
    /\ ~oob
    /\ inMem = inputImgRGBA.px
    /\ Len(outMem) = n
    /\ \A it \in GlobalRange(width, height) :
         /\ wrCount[idx(it) + 1] = IF it \in pending THEN 0 ELSE 1
         /\ rdCount[idx(it) + 1] = IF it \in pending THEN 0 ELSE 1
         /\ it \notin pending =>
              outMem[idx(it) + 1] = <<Mean(inMem[idx(it) + 1]), Mean(inMem[idx(it) + 1]),
                                      Mean(inMem[idx(it) + 1]), inMem[idx(it) + 1][4]>>
    /\ kernelCmd = "complete" <=> pending = {}

\* a 2x1 dispatch in which work-item (1, 0) has run before work-item (0, 0)
C10_Witness ==
  /\ kernelCmd = "queued"
  /\ width = 2 /\ height = 1
  /\ pending = {<<0, 0>>}
  /\ wrCount = <<0, 1>>

\* C5: the four arguments (input buffer, output buffer, W, H at indices 0..3) are
\* bound before the kernel is enqueued, the kernel is enqueued before the blocking
\* read, every work-item has completed when the blocking read has returned data,
\* and no device buffer is released before the dispatch has completed.
C5_Ordering ==
  /\ Called("clEnqueueNDRangeKernel") =>
       /\ \A i \in 1..4 : BoundAt(i) # 0
       /\ BoundAt(1) < BoundAt(2) /\ BoundAt(2) < BoundAt(3) /\ BoundAt(3) < BoundAt(4)
       /\ BoundAt(4) < FirstCall("clEnqueueNDRangeKernel")
       /\ args[1] = (IF handle["inputBuffer"] = "null" THEN "NULL" ELSE "inputBuffer")
       /\ args[2] = (IF handle["outputBuffer"] = "null" THEN "NULL" ELSE "outputBuffer")
       /\ args[3] = width
       /\ args[4] = height
  /\ kernelCmd # "none" => Succeeded("clEnqueueNDRangeKernel")
  /\ (readCmd # "none" \/ Called("clEnqueueReadBuffer")) =>
       Succeeded("clEnqueueNDRangeKernel")
  /\ Succeeded("clEnqueueReadBuffer") =>
       /\ pending = {}
       /\ kernelCmd = "complete"
       /\ readCmd = "complete"
       /\ outputImgRGBA.px = outMem
  /\ \A b \in {"inputBuffer", "outputBuffer"} :
       handle[b] = "released" => kernelCmd = "complete" /\ pending = {}

\* the blocking read of a 2x2 dispatch has returned and both buffers are released
C5_Witness ==
  /\ Succeeded("clEnqueueReadBuffer")
  /\ width = 2 /\ height = 2
  /\ handle["inputBuffer"] = "released"
  /\ handle["outputBuffer"] = "released"

\* a run that has ended and in which every call succeeded
SuccessfulRun == pc = "exited" /\ Failures = <<>>
Count(s, v) == Cardinality({ k \in 1..Len(s) : s[k] = v })
Buffers == {"inputBuffer", "outputBuffer"}

\* C8 as stated: on a successful run every acquired handle is released exactly once
\* and the releases are exactly the acquisitions in reverse order.
C8_StrictReverse ==
  SuccessfulRun =>
    /\ \A h \in Range(Acquired) : Count(Released, h) = 1
    /\ Released = Reverse(Acquired)

\* C8, amended: on a successful run every acquired handle is released exactly once,
\* both buffers before the kernel, the kernel before the program, the program
\* before the queue, the queue before the context; of two handles that are not
\* both buffers the one acquired later is released earlier, and the two buffers
\* are released in the order they were acquired (input, then output).
C8_ReleaseOrder ==
  SuccessfulRun =>
    /\ Range(Acquired) = HandleNames
    /\ Len(Released) = Len(Acquired)
    /\ \A h \in Range(Acquired) : Count(Released, h) = 1
    /\ \A a, b \in Range(Acquired) :
         (Pos(Acquired, a) < Pos(Acquired, b) /\ {a, b} # Buffers) =>
           Pos(Released, b) < Pos(Released, a)
    /\ Pos(Acquired, "inputBuffer") < Pos(Acquired, "outputBuffer")
    /\ Pos(Released, "inputBuffer") < Pos(Released, "outputBuffer")

\* a successful run of a 2x2 image has ended with all six handles released
C8_Witness ==
  /\ SuccessfulRun
  /\ width = 2 /\ height = 2
  /\ Len(Released) = 6
  /\ \A h \in HandleNames : handle[h] = "released"

\* C2: when a run has failed, no handle acquired before the failure is left
\* unreleased, and the releases made are in reverse order of acquisition.
C2_FailureReleasesAll ==
  (pc = "exited" /\ retVal # 0) =>
    /\ \A h \in HandleNames : handle[h] # "live"
    /\ Released = Reverse(Acquired)

\* C3: the exit code is 0 if and only if every stage succeeded.
C3_ExitCodeIffSuccess ==
  pc = "exited" => (exitCode = 0 <=> Failures = <<>>)

\* C4: if the creation of a device buffer fails the run aborts: no argument is
\* bound to the failed buffer, nothing is enqueued, nothing is read back, and the
\* exit code is not 0.
C4_AllocFailureAborts ==
  \A b \in Buffers :
    FailedCall("clCreateBuffer", b) =>
      /\ ~Called("clSetKernelArg")
      /\ ~Called("clEnqueueNDRangeKernel")
      /\ ~Called("clEnqueueReadBuffer")
      /\ kernelCmd = "none" /\ readCmd = "none"
      /\ pc = "exited" => exitCode # 0

\* the stages before the encoding
BeforeEncode(e) == e.op \notin {"imwrite", "clRelease"}
\* C6: in a run in which a stage before the encoding has failed, the output file
\* is never written.
C6_NoOutputAfterFailure ==
  SelectSeq(SelectSeq(trace, BeforeEncode), IsFailure) # <<>> => ~outFile.written

\* C7: when a run has failed exactly one diagnostic line has reached the real
\* standard error; when it has succeeded one line has reached standard output.
C7_DiagnosticReachesStderr ==
  pc = "exited" =>
    IF retVal # 0
      THEN Len(stderrLines) = 1 /\ stdoutLines = <<>>
      ELSE Len(stdoutLines) = 1 /\ stderrLines = <<>>

\* the stage of the driver a call belongs to, numbered in the order C9 gives:
\* 1 open session, 2 decode, 3 convert to RGBA, 4 allocate input, 5 allocate
\* output, 6 build kernel, 7 dispatch, 8 blocking read, 9 convert back, 10 encode,
\* 11 release buffers, 12 release kernel, 13 close session
StageOf(e) ==
  CASE e.op \in {"clGetPlatformIDs", "clGetDeviceIDs", "clCreateContext",
                 "clCreateCommandQueue"} -> 1
    [] e.op = "imread" -> 2
    [] e.op = "cvtColorIn" -> 3
    [] e.op = "clCreateBuffer" /\ e.arg = "inputBuffer" -> 4
    [] e.op = "clCreateBuffer" /\ e.arg = "outputBuffer" -> 5
    [] e.op \in {"clCreateProgram", "clBuildProgram", "clCreateKernel"} -> 6
    [] e.op \in {"clSetKernelArg", "clEnqueueNDRangeKernel"} -> 7
    [] e.op = "clEnqueueReadBuffer" -> 8
    [] e.op = "cvtColorOut" -> 9
    [] e.op = "imwrite" -> 10
    [] e.op = "clRelease" /\ e.arg \in Buffers -> 11
    [] e.op = "clRelease" /\ e.arg \in {"clKernel", "program"} -> 12
    [] e.op = "clRelease" /\ e.arg \in {"cmdQueue", "context"} -> 13

\* C9: the stages run in the order of the list above, none is entered again once
\* left, a stage runs only if every earlier call succeeded, and a run that has
\* failed has released what it had acquired.
C9_StageOrder ==
  /\ \A k \in 1..(Len(trace) - 1) : StageOf(trace[k]) <= StageOf(trace[k + 1])
  /\ \A k \in 1..(Len(trace) - 1) :
       ~trace[k].ok => StageOf(trace[k + 1]) >= 11
  /\ (pc = "exited" /\ Failures # <<>>) =>
       /\ exitCode # 0
       /\ \A h \in HandleNames : handle[h] # "live"

====
